---------------------------- MODULE Spec2Model ----------------------------
(***************************************************************************)
(* The screenshot finishing pipeline of better-shot:                       *)
(*   src/src/lib/forensic-metadata.ts  appendForensicMetadata and the      *)
(*        pipeline controller processScreenshotWithDefaultBackground       *)
(*        (the version with the forensic footer),                          *)
(*   src/src/lib/auto-process.ts       the controller without the footer.  *)
(*                                                                         *)
(* One invocation is a chain of callbacks of a single-threaded event loop: *)
(* every action below is one callback (or one continuation of an await)    *)
(* run to completion.  What the host does (the store answering or          *)
(* throwing, an image loading or failing, a context being available, the   *)
(* encoder delivering a blob or null, the reader succeeding or failing) is *)
(* chosen nondeterministically.                                            *)
(***************************************************************************)
EXTENDS Naturals, Sequences, FiniteSets, TLC

VARIABLES
    store,   \* settings.json: key -> stored JSON value (Null when absent)
    proc,    \* invocation id -> the closure state of that invocation
    prefs,   \* the calls of the settings-writing handlers, in call order
    selector, \* the state of the background selector component
    overlay  \* the quick overlay window: its component state, timers, clock

vars == <<store, proc, prefs, selector, overlay>>

---------------------------------------------------------------------------
(* Values *)

Null == "<null>"

\* type BackgroundType
BackgroundTypes ==
    {"transparent", "white", "black", "gray", "custom", "image", "gradient"}

\* what settings.json may hold under defaultBackgroundType: the store is
\* stringly typed, so also a value outside the union, or nothing
StoredTypeValues == BackgroundTypes \cup {"sepia", Null}

StoredColorValues == {Null, "#ff0000"}

\* references under defaultBackgroundImage: a registry asset id, a reference
\* the registry no longer knows, or nothing
KnownAssetId == "asset:mac-1"
StaleRef == "/legacy/removed.jpg"
StoredBgValues == {Null, KnownAssetId, StaleRef}

StoredBoolValues == {Null, "true", "false"}

StoredTeamValues == {Null, "security"}
StoredUserValues == {Null, " "}

\* options.timestampUtc as the caller passes it (Null: not supplied)
TimestampOptions == {Null, "2024-01-01T00:00:00Z"}

\* new Date().toISOString()
ClockNow == "2026-01-01T12:00:00.000Z"

\* natural size of the screenshot behind imagePath
SourceSizes == {[w |-> 800, h |-> 600], [w |-> 1, h |-> 1]}

Versions == {"forensic", "plain"}

Invocations == {1, 2}


---------------------------------------------------------------------------
(* The asset registry and the compositor: their code is not part of the    *)
(* sources at hand, so they follow the design document.                    *)

\* getDefaultBackgroundPath(): the built-in default background
DefaultBackgroundPath == "/assets/default-bg.jpg"

KnownAssetPath == "/assets/mac/mac-1.jpg"

\* resolveBackgroundPath(ref): the concrete location of a reference, and the
\* built-in default for a reference that no longer resolves
ResolveBackgroundPath(ref) ==
    IF ref = KnownAssetId THEN KnownAssetPath ELSE DefaultBackgroundPath

\* createHighQualityCanvas(options): a surface of the source size plus the
\* padding on every side
CreateHighQualityCanvas(options) ==
    [id     |-> 1,
     w      |-> options.image.w + 2 * options.padding,
     h      |-> options.image.h + 2 * options.padding,
     footer |-> <<>>,
     paint  |-> <<[kind   |-> "composite",
                   top    |-> 0,
                   bottom |-> options.image.h + 2 * options.padding]>>]

---------------------------------------------------------------------------
(* appendForensicMetadata *)

footerPaddingX == 24
footerPaddingY == 12
lineGap == 4
fontSize == 14
lineHeight == 18

\* a footer band that counts the vertical padding once
footerHeightOnePadding == footerPaddingY + lineHeight * 2 + lineGap

footerHeight == footerPaddingY * 2 + lineHeight * 2 + lineGap

\* The pixel rows a drawing call touches are [top, bottom).  A horizontal
\* stroke of width lineWidth centred on y covers y - lineWidth/2 up to
\* y + lineWidth/2 and touches every row it overlaps; y is given in half
\* pixels (y2 = 2 * y) to keep the arithmetic whole.
StrokeRows(y2, lineWidth) ==
    [top |-> (y2 - lineWidth) \div 2, bottom |-> (y2 + lineWidth + 1) \div 2]

\* a separator drawn on the seam itself, at y = sourceCanvas.height
SeparatorOnSeam(sourceCanvas) == 2 * sourceCanvas.h

\* lines 44-45: the separator's y, sourceCanvas.height + 0.5, in half pixels
SeparatorY2(sourceCanvas) == 2 * sourceCanvas.h + 1

\* a new canvas: the source drawn at (0, 0), then the footer band, the
\* separator and the two text lines (baseline top) below it
appendForensicMetadata(sourceCanvas, timestampUtc, userLabel) ==
    LET startY == sourceCanvas.h + footerPaddingY
        line2Y == startY + lineHeight + lineGap
        sep    == StrokeRows(SeparatorY2(sourceCanvas), 1)
    IN  [id     |-> sourceCanvas.id + 1,
         w      |-> sourceCanvas.w,
         h      |-> sourceCanvas.h + footerHeight,
         footer |-> <<"UTC: " \o timestampUtc, "User: " \o userLabel>>,
         paint  |-> <<[kind |-> "drawImage", top |-> 0, bottom |-> sourceCanvas.h,
                       image |-> sourceCanvas],
                      [kind |-> "fillRect", top |-> sourceCanvas.h,
                       bottom |-> sourceCanvas.h + footerHeight],
                      [kind |-> "stroke", top |-> sep.top, bottom |-> sep.bottom],
                      [kind |-> "fillText", top |-> startY, bottom |-> startY + fontSize],
                      [kind |-> "fillText", top |-> line2Y, bottom |-> line2Y + fontSize]>>]

\* what has been drawn into pixel row y of a canvas, in drawing order; a
\* drawImage contributes the row of the image it copies
RECURSIVE RowOf(_, _)
RowOf(canvas, y) ==
    LET Marks(op) ==
            IF ~(op.top <= y /\ y < op.bottom) THEN <<>>
            ELSE IF op.kind = "drawImage" THEN RowOf(op.image, y - op.top)
            ELSE IF op.kind = "composite" THEN <<<<"composite", y>>>>
            ELSE <<<<op.kind, 0>>>>
        Rec[k \in 0..Len(canvas.paint)] ==
            IF k = 0 THEN <<>> ELSE Rec[k - 1] \o Marks(canvas.paint[k])
    IN  Rec[Len(canvas.paint)]

---------------------------------------------------------------------------
(* Helpers of processScreenshotWithDefaultBackground *)

\* JavaScript truthiness of a stored string: if (storedX)
Truthy(v) == v # Null /\ v # ""

IsWhitespace(c) == c \in {" ", "\t", "\n"}

\* String.prototype.trim
RECURSIVE TrimStart(_)
TrimStart(s) ==
    IF Len(s) > 0 /\ IsWhitespace(SubSeq(s, 1, 1))
    THEN TrimStart(SubSeq(s, 2, Len(s)))
    ELSE s

RECURSIVE TrimEnd(_)
TrimEnd(s) ==
    IF Len(s) > 0 /\ IsWhitespace(SubSeq(s, Len(s), Len(s)))
    THEN TrimEnd(SubSeq(s, 1, Len(s) - 1))
    ELSE s

\* a trim that forgets the trailing whitespace
TrimLeadingOnly(s) == TrimStart(s)

Trim(s) == TrimEnd(TrimStart(s))

buildUserLabel(team, user) ==
    LET safeTeam == IF Trim(team) # "" THEN Trim(team) ELSE "unknown"
        safeUser == IF Trim(user) # "" THEN Trim(user) ELSE "unknown"
    IN  safeTeam \o "/" \o safeUser

\* the keys read by the settings-loading step, in the order of the awaits
SettingsKeys(version) ==
    IF version = "forensic"
    THEN <<"defaultBackgroundType", "defaultCustomColor", "defaultBackgroundImage",
           "forensicMetadataEnabled", "forensicTeam", "forensicUser">>
    ELSE <<"defaultBackgroundType", "defaultCustomColor", "defaultBackgroundImage">>

AllKeys ==
    {"defaultBackgroundType", "defaultCustomColor", "defaultBackgroundImage",
     "forensicMetadataEnabled", "forensicTeam", "forensicUser"}

\* a test that sends the custom colour through the image branch as well
NeedsBackgroundImageOrCustom(backgroundType) ==
    backgroundType \in {"image", "gradient", "custom"}

\* does this background type take the branch that decodes a background?
NeedsBackgroundImage(backgroundType) ==
    backgroundType = "image" \/ backgroundType = "gradient"

\* a flat branch that pads the transparent background like the others
FlatPaddingAlways(isTransparent) == 100

\* padding: isTransparent ? 0 : 100
FlatPadding(isTransparent) == IF isTransparent THEN 0 ELSE 100

FullShadow == [blur |-> 33, offsetX |-> 18, offsetY |-> 23, opacity |-> 39]
NoShadow == [blur |-> 0, offsetX |-> 0, offsetY |-> 0, opacity |-> 0]

\* a flat branch that keeps the shadow on a transparent background
FlatShadowAlways(isTransparent) == FullShadow

\* shadow: isTransparent ? {0, 0, 0, 0} : {33, 18, 23, 39}
FlatShadow(isTransparent) == IF isTransparent THEN NoShadow ELSE FullShadow

\* options that pass the decoded bitmap as bgImage for a gradient too
ImageOptionsBothRoles(p) ==
    LET isGradient == p.backgroundType = "gradient"
    IN  [image          |-> p.source,
         backgroundType |-> p.backgroundType,
         customColor    |-> p.customColor,
         selectedImage  |-> IF isGradient THEN Null ELSE p.defaultBgImage,
         bgImage        |-> p.bgSrc,
         blurAmount     |-> 0,
         noiseAmount    |-> 20,
         borderRadius   |-> 18,
         padding        |-> 100,
         gradientImage  |-> IF isGradient THEN p.bgSrc ELSE Null,
         shadow         |-> FullShadow]

\* the options of the createHighQualityCanvas call in bgImage.onload
ImageOptions(p) ==
    LET isGradient == p.backgroundType = "gradient"
    IN  [image          |-> p.source,
         backgroundType |-> p.backgroundType,
         customColor    |-> p.customColor,
         selectedImage  |-> IF isGradient THEN Null ELSE p.defaultBgImage,
         bgImage        |-> IF isGradient THEN Null ELSE p.bgSrc,
         blurAmount     |-> 0,
         noiseAmount    |-> 20,
         borderRadius   |-> 18,
         padding        |-> 100,
         gradientImage  |-> IF isGradient THEN p.bgSrc ELSE Null,
         shadow         |-> FullShadow]

\* the options of the createHighQualityCanvas call of the flat branch
FlatOptions(p) ==
    LET isTransparent == p.backgroundType = "transparent"
    IN  [image          |-> p.source,
         backgroundType |-> p.backgroundType,
         customColor    |-> p.customColor,
         selectedImage  |-> Null,
         bgImage        |-> Null,
         gradientImage  |-> Null,
         blurAmount     |-> 0,
         noiseAmount    |-> 20,
         borderRadius   |-> 18,
         padding        |-> FlatPadding(isTransparent),
         shadow         |-> FlatShadow(isTransparent)]

---------------------------------------------------------------------------
(* The state of one invocation *)

NoOptions == [none |-> TRUE]
NoCanvas == [none |-> TRUE]
NoValue == [none |-> TRUE]

\* the closure of an invocation before its executor has run
NewProc(version, source, timestampOpt) ==
    [pc             |-> "start",
     version        |-> version,
     source         |-> source,          \* the bitmap img decodes to
     timestampUtc   |-> timestampOpt,    \* options.timestampUtc
     getIdx         |-> 0,               \* the store.get being awaited
     stored         |-> [k \in AllKeys |-> Null],
     backgroundType |-> Null,
     customColor    |-> Null,
     defaultBgImage |-> Null,
     forensicEnabled |-> FALSE,
     forensicTeam   |-> Null,
     forensicUser   |-> Null,
     settingsError  |-> "none",          \* what the catch of the settings step caught
     bgSrc          |-> Null,            \* bgImage.src
     options        |-> NoOptions,       \* what createHighQualityCanvas was called with
     canvas         |-> NoCanvas,        \* what createHighQualityCanvas returned
     output         |-> NoCanvas,        \* the canvas toBlob was called on
     promise        |-> "pending",
     value          |-> NoValue,         \* the artifact or the error
     trace          |-> <<>>]            \* the stage calls and callbacks so far

IdleProc == [NewProc("forensic", [w |-> 1, h |-> 1], Null) EXCEPT !.pc = "idle"]

Log(p, event) == [p EXCEPT !.trace = Append(@, event)]

\* resolve(value) of the promise: the first settlement wins
Resolve(p, value) ==
    IF p.promise = "pending"
    THEN [Log(p, "resolve") EXCEPT !.promise = "resolved", !.value = value]
    ELSE Log(p, "resolve")

\* reject(error) of the promise: the first settlement wins
Reject(p, error) ==
    IF p.promise = "pending"
    THEN [Log(p, "reject") EXCEPT !.promise = "rejected", !.value = error]
    ELSE Log(p, "reject")

\* no callback of the invocation is outstanding any more
Finished(p) == [p EXCEPT !.pc = "done"]

\* canvas.toBlob + readAsDataURL: the PNG data URL of a canvas
DataUrlOf(canvas) == [png |-> canvas]

\* reader.result after a failed read
NullResult == [null |-> TRUE]

Error(message) == [error |-> message]

ErrSource == "Failed to load image from: imagePath"
ErrBackground == "Failed to load background image"
ErrBlob == "Failed to create blob from canvas"
ErrRead == "Failed to read processed image"
ErrContext == "Failed to get canvas context for forensic metadata"
ErrCompositor == "createHighQualityCanvas threw"
ErrToBlob == "toBlob threw"

---------------------------------------------------------------------------
(* The settings-loading step *)

\* a settings step that stores the reference as it is
StoredDefaultBgUnresolved(storedDefaultBg) == storedDefaultBg

\* line 103: defaultBgImage = resolveBackgroundPath(storedDefaultBg)
ResolvedDefaultBg(storedDefaultBg) == ResolveBackgroundPath(storedDefaultBg)

\* a settings step that keeps the default for a type it does not know
KnownTypeOrDefault(storedBgType) ==
    IF storedBgType \in BackgroundTypes THEN storedBgType ELSE "image"

\* line 97: backgroundType = storedBgType, whatever string was stored
AssignedType(storedBgType) == storedBgType

\* lines 96-113 (forensic version) and 23-31 (plain version): the stored
\* values are applied in order; resolveBackgroundPath may throw half way
ApplySettings(p, resolveOk) ==
    LET s  == p.stored
        p1 == IF Truthy(s["defaultBackgroundType"])
              THEN [p EXCEPT !.backgroundType = AssignedType(s["defaultBackgroundType"])]
              ELSE p
        p2 == IF Truthy(s["defaultCustomColor"])
              THEN [p1 EXCEPT !.customColor = s["defaultCustomColor"]]
              ELSE p1
        resolves == Truthy(s["defaultBackgroundImage"])
                    /\ NeedsBackgroundImage(p2.backgroundType)
        p3 == IF resolves
              THEN [p2 EXCEPT !.defaultBgImage =
                                  ResolvedDefaultBg(s["defaultBackgroundImage"])]
              ELSE p2
        p4 == IF s["forensicMetadataEnabled"] # Null
              THEN [p3 EXCEPT !.forensicEnabled = (s["forensicMetadataEnabled"] = "true")]
              ELSE p3
        p5 == IF Truthy(s["forensicTeam"])
              THEN [p4 EXCEPT !.forensicTeam = s["forensicTeam"]]
              ELSE p4
        p6 == IF Truthy(s["forensicUser"])
              THEN [p5 EXCEPT !.forensicUser = s["forensicUser"]]
              ELSE p5
    IN  IF resolves /\ ~resolveOk
        THEN [p2 EXCEPT !.settingsError = "resolveBackgroundPath"]
        ELSE IF p.version = "forensic" THEN p6 ELSE p3

\* a controller that starts the background decode together with the source
StartBothDecodes(p, convertOk) ==
    IF ~convertOk
    THEN Finished(Log(p, "convertFileSrcThrew"))
    ELSE IF NeedsBackgroundImage(p.backgroundType)
    THEN [Log(Log(p, "srcStart"), "bgStart")
            EXCEPT !.pc = "srcDecoding", !.bgSrc = p.defaultBgImage]
    ELSE [Log(p, "srcStart") EXCEPT !.pc = "srcDecoding"]

\* after the try/catch: new Image(), the handlers, convertFileSrc, img.src.
\* A throw of convertFileSrc leaves the async executor; nothing catches it.
StartSourceDecode(p, convertOk) ==
    IF convertOk
    THEN [Log(p, "srcStart") EXCEPT !.pc = "srcDecoding"]
    ELSE Finished(Log(p, "convertFileSrcThrew"))

\* the call: the executor runs up to its first await, Store.load
Invoke(i) ==
    /\ proc[i].pc = "start"
    /\ proc' = [proc EXCEPT ![i] =
                  [@ EXCEPT !.pc = "storeLoad",
                            !.backgroundType = "image",
                            !.customColor = "#667eea",
                            !.defaultBgImage = DefaultBackgroundPath,
                            !.bgSrc = Null,
                            !.forensicEnabled = FALSE,
                            !.forensicTeam = "",
                            !.forensicUser = ""]]
    /\ UNCHANGED <<store, prefs, selector, overlay>>

\* await Store.load("settings.json") settles
StoreLoaded(i) ==
    /\ proc[i].pc = "storeLoad"
    /\ \E ok \in BOOLEAN, convertOk \in BOOLEAN :
         proc' = [proc EXCEPT ![i] =
                    IF ok
                    THEN [@ EXCEPT !.pc = "get", !.getIdx = 1]
                    ELSE StartSourceDecode(
                             [@ EXCEPT !.settingsError = "Store.load"], convertOk)]
    /\ UNCHANGED <<store, prefs, selector, overlay>>

\* a settings step that writes the type it ends up with back to the store
StoreGotWritesBack(i) ==
    /\ proc[i].pc = "get"
    /\ \E ok \in BOOLEAN, resolveOk \in BOOLEAN, convertOk \in BOOLEAN :
         LET p    == proc[i]
             keys == SettingsKeys(p.version)
             key  == keys[p.getIdx]
             got  == [p EXCEPT !.stored[key] = store[key]]
             done == ApplySettings(got, resolveOk)
         IN  IF ~ok
             THEN /\ proc' = [proc EXCEPT ![i] = StartSourceDecode(
                                 [p EXCEPT !.settingsError = "store.get"], convertOk)]
                  /\ store' = store
             ELSE IF p.getIdx < Len(keys)
             THEN /\ proc' = [proc EXCEPT ![i] = [got EXCEPT !.getIdx = p.getIdx + 1]]
                  /\ store' = store
             ELSE /\ proc' = [proc EXCEPT ![i] = StartSourceDecode(done, convertOk)]
                  /\ store' = [store EXCEPT
                                 !["defaultBackgroundType"] = done.backgroundType]
    /\ UNCHANGED <<prefs, selector, overlay>>

\* await store.get(key) settles; after the last one the rest of the
\* executor runs
StoreGot(i) ==
    /\ proc[i].pc = "get"
    /\ \E ok \in BOOLEAN, resolveOk \in BOOLEAN, convertOk \in BOOLEAN :
         LET p    == proc[i]
             keys == SettingsKeys(p.version)
             key  == keys[p.getIdx]
             got  == [p EXCEPT !.stored[key] = store[key]]
         IN  proc' = [proc EXCEPT ![i] =
                        IF ~ok
                        THEN StartSourceDecode(
                                 [p EXCEPT !.settingsError = "store.get"], convertOk)
                        ELSE IF p.getIdx < Len(keys)
                        THEN [got EXCEPT !.getIdx = p.getIdx + 1]
                        ELSE StartSourceDecode(ApplySettings(got, resolveOk), convertOk)]
    /\ UNCHANGED <<store, prefs, selector, overlay>>

---------------------------------------------------------------------------
(* Compositing, footer, encoding *)

\* what the host can do during the synchronous part of a finishing step
HostOutcomes(p) ==
    {"ok", "compositorThrows", "toBlobThrows"}
      \cup (IF p.version = "forensic" /\ p.forensicEnabled
            THEN {"noContext"} ELSE {})

\* a timestamp chosen with || : an empty string falls back to the clock
TimestampOrClock(p) ==
    IF p.timestampUtc # Null /\ p.timestampUtc # "" THEN p.timestampUtc ELSE ClockNow

\* line 128: options.timestampUtc ?? new Date().toISOString()
TimestampFor(p) == IF p.timestampUtc # Null THEN p.timestampUtc ELSE ClockNow

\* a footer step that does not look at forensicEnabled
applyForensicMetadataAlways(p, canvas) ==
    appendForensicMetadata(canvas, TimestampFor(p),
                           buildUserLabel(p.forensicTeam, p.forensicUser))

\* a footer step that takes an absent setting for an enabled one
applyForensicMetadataUnlessFalse(p, canvas) ==
    IF p.stored["forensicMetadataEnabled"] = "false"
    THEN canvas
    ELSE appendForensicMetadata(canvas, TimestampFor(p),
                                buildUserLabel(p.forensicTeam, p.forensicUser))

\* applyForensicMetadata(canvas), when getContext succeeds
applyForensicMetadata(p, canvas) ==
    IF ~p.forensicEnabled
    THEN canvas
    ELSE appendForensicMetadata(canvas, TimestampFor(p),
                                buildUserLabel(p.forensicTeam, p.forensicUser))

\* outputCanvas.toBlob(callback, "image/png", 1.0), or its throw caught by
\* the enclosing try
StartEncode(p, outputCanvas, host) ==
    IF host = "toBlobThrows"
    THEN Finished(Reject(Log(p, "toBlobThrew"), Error(ErrToBlob)))
    ELSE [Log(p, "toBlob") EXCEPT !.pc = "encoding", !.output = outputCanvas]

\* a finishing step that starts the encode and stamps the footer afterwards
EncodeBeforeFooter(p, canvas, host) ==
    IF p.version = "plain"
    THEN StartEncode(p, canvas, host)
    ELSE Log(StartEncode(p, canvas, host), "footer")

\* a footer step whose failure is swallowed: the bare composite is encoded
FooterOrBareEncode(p, canvas, host) ==
    IF p.version = "plain"
    THEN StartEncode(p, canvas, host)
    ELSE IF host = "noContext"
    THEN StartEncode(Log(Log(p, "footer"), "footerThrew"), canvas, "ok")
    ELSE StartEncode(Log(p, "footer"), applyForensicMetadata(p, canvas), host)

\* the footer step of the forensic version, then the encode
FooterAndEncode(p, canvas, host) ==
    IF p.version = "plain"
    THEN StartEncode(p, canvas, host)
    ELSE IF host = "noContext"
    THEN Finished(Reject(Log(Log(p, "footer"), "footerThrew"), Error(ErrContext)))
    ELSE StartEncode(Log(p, "footer"), applyForensicMetadata(p, canvas), host)

\* the body of the try of bgImage.onload and of the flat branch:
\* createHighQualityCanvas, applyForensicMetadata, toBlob; catch: reject(err)
CompositeAndEncode(p, options, host) ==
    LET called == [Log(p, "composite") EXCEPT !.options = options]
        canvas == CreateHighQualityCanvas(options)
    IN  IF host = "compositorThrows"
        THEN Finished(Reject(Log(called, "compositeThrew"), Error(ErrCompositor)))
        ELSE FooterAndEncode([called EXCEPT !.canvas = canvas], canvas, host)

\* an onload whose background image is one variable of the module, shared
\* by every invocation
ImgOnLoadSharedBg(i) ==
    /\ proc[i].pc = "srcDecoding"
    /\ \E host \in HostOutcomes(proc[i]) :
         LET p == Log(proc[i], "srcLoaded")
         IN  proc' = [j \in Invocations |->
                        IF j # i
                        THEN IF NeedsBackgroundImage(p.backgroundType) /\ proc[j].pc # "idle"
                             THEN [proc[j] EXCEPT !.bgSrc = p.defaultBgImage]
                             ELSE proc[j]
                        ELSE IF NeedsBackgroundImage(p.backgroundType)
                        THEN [Log(p, "bgStart") EXCEPT !.pc = "bgDecoding",
                                                       !.bgSrc = p.defaultBgImage]
                        ELSE CompositeAndEncode(p, FlatOptions(p), host)]
    /\ UNCHANGED <<store, prefs, selector, overlay>>

\* an onload that reads the custom colour from the store once more
ImgOnLoadRereads(i) ==
    /\ proc[i].pc = "srcDecoding"
    /\ \E host \in HostOutcomes(proc[i]) :
         LET p == [Log(proc[i], "srcLoaded") EXCEPT
                     !.customColor = IF store["defaultCustomColor"] # Null
                                     THEN store["defaultCustomColor"] ELSE @]
         IN  proc' = [proc EXCEPT ![i] =
                        IF NeedsBackgroundImage(p.backgroundType)
                        THEN [Log(p, "bgStart") EXCEPT !.pc = "bgDecoding",
                                                       !.bgSrc = p.defaultBgImage]
                        ELSE CompositeAndEncode(p, FlatOptions(p), host)]
    /\ UNCHANGED <<store, prefs, selector, overlay>>

\* img.onload
ImgOnLoad(i) ==
    /\ proc[i].pc = "srcDecoding"
    /\ \E host \in HostOutcomes(proc[i]) :
         LET p == Log(proc[i], "srcLoaded")
         IN  proc' = [proc EXCEPT ![i] =
                        IF NeedsBackgroundImage(p.backgroundType)
                        THEN [Log(p, "bgStart") EXCEPT !.pc = "bgDecoding",
                                                       !.bgSrc = p.defaultBgImage]
                        ELSE CompositeAndEncode(p, FlatOptions(p), host)]
    /\ UNCHANGED <<store, prefs, selector, overlay>>

\* an error handler that rejects and still goes on to composite
ImgOnErrorGoesOn(i) ==
    /\ proc[i].pc = "srcDecoding"
    /\ proc' = [proc EXCEPT ![i] =
                  CompositeAndEncode(Reject(Log(@, "srcError"), Error(ErrSource)),
                                     FlatOptions(@), "ok")]
    /\ UNCHANGED <<store, prefs, selector, overlay>>

\* img.onerror
ImgOnError(i) ==
    /\ proc[i].pc = "srcDecoding"
    /\ proc' = [proc EXCEPT ![i] =
                  Finished(Reject(Log(@, "srcError"), Error(ErrSource)))]
    /\ UNCHANGED <<store, prefs, selector, overlay>>

\* bgImage.onload
BgImageOnLoad(i) ==
    /\ proc[i].pc = "bgDecoding"
    /\ \E host \in HostOutcomes(proc[i]) :
         LET p == Log(proc[i], "bgLoaded")
         IN  proc' = [proc EXCEPT ![i] = CompositeAndEncode(p, ImageOptions(p), host)]
    /\ UNCHANGED <<store, prefs, selector, overlay>>

\* an error handler that rejects and still composites, without a background
BgImageOnErrorComposites(i) ==
    /\ proc[i].pc = "bgDecoding"
    /\ proc' = [proc EXCEPT ![i] =
                  CompositeAndEncode(Reject(Log(@, "bgError"), Error(ErrBackground)),
                                     FlatOptions(@), "ok")]
    /\ UNCHANGED <<store, prefs, selector, overlay>>

\* an error handler that retries the decode with the built-in default
BgImageOnErrorRetries(i) ==
    /\ proc[i].pc = "bgDecoding"
    /\ proc' = [proc EXCEPT ![i] =
                  IF @.bgSrc # DefaultBackgroundPath
                  THEN [Log(Log(@, "bgError"), "bgStart")
                          EXCEPT !.bgSrc = DefaultBackgroundPath]
                  ELSE Finished(Reject(Log(@, "bgError"), Error(ErrBackground)))]
    /\ UNCHANGED <<store, prefs, selector, overlay>>

\* bgImage.onerror
BgImageOnError(i) ==
    /\ proc[i].pc = "bgDecoding"
    /\ proc' = [proc EXCEPT ![i] =
                  Finished(Reject(Log(@, "bgError"), Error(ErrBackground)))]
    /\ UNCHANGED <<store, prefs, selector, overlay>>

\* the toBlob callback
ToBlobCallback(i) ==
    /\ proc[i].pc = "encoding"
    /\ \E blob \in BOOLEAN :
         proc' = [proc EXCEPT ![i] =
                    IF blob
                    THEN [Log(Log(@, "blob"), "readStart") EXCEPT !.pc = "reading"]
                    ELSE Finished(Reject(Log(@, "noBlob"), Error(ErrBlob)))]
    /\ UNCHANGED <<store, prefs, selector, overlay>>

\* a reader without an error handler: a failed read is left to loadend
ReaderOnErrorUnhandled(i) ==
    /\ proc[i].pc = "reading"
    /\ proc' = [proc EXCEPT ![i] = [Log(@, "readerError") EXCEPT !.pc = "readFailed"]]
    /\ UNCHANGED <<store, prefs, selector, overlay>>

\* reader.onerror: the read failed; the reader's loadend follows
ReaderOnError(i) ==
    /\ proc[i].pc = "reading"
    /\ proc' = [proc EXCEPT ![i] =
                  [Reject(Log(@, "readerError"), Error(ErrRead)) EXCEPT !.pc = "readFailed"]]
    /\ UNCHANGED <<store, prefs, selector, overlay>>

\* reader.onloadend: resolve(reader.result), which is null after an error
ReaderOnLoadEnd(i) ==
    /\ proc[i].pc \in {"reading", "readFailed"}
    /\ proc' = [proc EXCEPT ![i] =
                  Finished(Resolve(Log(@, "loadEnd"),
                                   IF @.pc = "reading" THEN DataUrlOf(@.output)
                                   ELSE NullResult))]
    /\ UNCHANGED <<store, prefs, selector, overlay>>

---------------------------------------------------------------------------
(* The handlers that write settings.json: those of the preferences page and
   those of the background selector.  Each await of a handler is a step;
   store.set changes what a later store.get returns, store.save writes the
   file.  Handlers called one after the other run interleaved, since each
   of them suspends at its awaits.  MaxHandlerCalls bounds how many are
   called. *)

MaxHandlerCalls == 2

\* no handler has been called
IdlePrefs == <<>>

UploadsKey == "uploadedBackgroundImages"

StoreKeys == AllKeys \cup {UploadsKey}

\* the images uploaded before the selector was opened
EarlierUploads == <<"data:image/png;u1">>

\* the image sources the selector can be clicked with, besides the uploaded
\* images it shows
SelectableImages == {"/assets/mac-1.jpg", "blob:preview"}

\* toStorableValue(imageSrc): the id of a known asset, a data URL as it is,
\* null for a source that cannot be stored
ToStorableValue(imageSrc) ==
    IF imageSrc = "/assets/mac-1.jpg" THEN KnownAssetId
    ELSE IF imageSrc = Null \/ imageSrc = "blob:preview" THEN Null
    ELSE imageSrc

\* the forensic settings as the preferences page writes them
UpdateSettingInputs ==
    {<<"forensicMetadataEnabled", "true">>, <<"forensicMetadataEnabled", "false">>,
     <<"forensicTeam", "ops">>, <<"forensicUser", "kim">>}

\* the types of the solid-colour buttons and of the transparent button
SolidColorTypes == {"white", "transparent"}

PickedColors == {"#00ff00"}

\* gradient.id.replace("mesh-", "gradient-") of the gradient buttons
GradientIds == {"gradient-1"}

\* the files the upload input can be given
UploadFiles ==
    {[type |-> "image/png", dataUrl |-> "data:image/png;A"],
     [type |-> "image/png", dataUrl |-> "data:image/png;B"],
     [type |-> "text/plain", dataUrl |-> "data:text/plain;C"]}

\* the file reads of handleFileUpload that have not fired onloadend yet
PendingReads ==
    {r \in 1..Len(selector.reads) : selector.reads[r].pc \in {"reading", "readFailed"}}

\* one more handler or file read may be started; the handler that a file
\* read ends in counts with its read
MayCall ==
    Cardinality({h \in 1..Len(prefs) : prefs[h].kind # "handleFileUpload"})
        + Len(selector.reads) < MaxHandlerCalls

\* a handler that has run up to its await Store.load, with the store.set
\* calls it will make
NewHandler(kind, writes) ==
    [kind |-> kind, pc |-> "load", writes |-> writes, all |-> writes]

StartHandler(kind, writes) ==
    /\ MayCall
    /\ prefs' = Append(prefs, NewHandler(kind, writes))

\* updateSetting(key, value)
updateSetting ==
    /\ \E kv \in UpdateSettingInputs : StartHandler("updateSetting", <<kv>>)
    /\ UNCHANGED <<store, proc, selector, overlay>>

\* handleImageSelect(imageSrc)
handleImageSelect ==
    /\ MayCall
    /\ \E imageSrc \in SelectableImages
                           \cup {selector.uploadedImages[k] :
                                    k \in 1..Len(selector.uploadedImages)} :
         LET storableValue == ToStorableValue(imageSrc)
         IN  IF storableValue = Null
             THEN /\ prefs' = Append(prefs, [NewHandler("handleImageSelect", <<>>)
                                                EXCEPT !.pc = "returned"])
                  /\ selector' = selector
             ELSE /\ StartHandler("handleImageSelect",
                                  <<<<"defaultBackgroundType", "image">>,
                                    <<"defaultBackgroundImage", storableValue>>>>)
                  /\ selector' = [selector EXCEPT !.selectedImage = storableValue]
    /\ UNCHANGED <<store, proc, overlay>>

\* handleSolidColorSelect(type)
handleSolidColorSelect ==
    /\ \E type \in SolidColorTypes :
         StartHandler("handleSolidColorSelect",
                      <<<<"defaultBackgroundType", type>>>>
                        \o (IF type = "image"
                            THEN <<<<"defaultBackgroundImage", Null>>>>
                            ELSE <<>>))
    /\ selector' = [selector EXCEPT !.selectedImage = Null]
    /\ UNCHANGED <<store, proc, overlay>>

\* handleCustomColorChange(color)
handleCustomColorChange ==
    /\ \E color \in PickedColors :
         StartHandler("handleCustomColorChange",
                      <<<<"defaultBackgroundType", "custom">>,
                        <<"defaultCustomColor", color>>,
                        <<"defaultBackgroundImage", Null>>>>)
    /\ selector' = [selector EXCEPT !.selectedImage = Null]
    /\ UNCHANGED <<store, proc, overlay>>

\* the onClick of a gradient button
gradientOnClick ==
    /\ \E gradientId \in GradientIds :
         /\ StartHandler("gradientOnClick",
                         <<<<"defaultBackgroundType", "gradient">>,
                           <<"defaultBackgroundImage", gradientId>>>>)
         /\ selector' = [selector EXCEPT !.selectedImage = gradientId]
    /\ UNCHANGED <<store, proc, overlay>>

\* handleFileUpload(event) up to reader.readAsDataURL(file): onloadend keeps
\* the uploadedImages of the render the handler belongs to
handleFileUpload ==
    /\ MayCall
    /\ \E file \in UploadFiles :
         IF file.type # "image/png"
         THEN selector' = selector
         ELSE selector' = [selector EXCEPT
                             !.reads = Append(@, [captured |-> selector.uploadedImages,
                                                  dataUrl  |-> file.dataUrl,
                                                  pc       |-> "reading"])]
    /\ UNCHANGED <<store, proc, prefs, overlay>>

\* reader.onerror of an upload; onloadend still follows
UploadReaderOnError ==
    /\ \E r \in 1..Len(selector.reads) :
         /\ selector.reads[r].pc = "reading"
         /\ selector' = [selector EXCEPT !.reads[r].pc = "readFailed"]
    /\ UNCHANGED <<store, proc, prefs, overlay>>

\* reader.onloadend of an upload, up to its await Store.load
UploadReaderOnLoadEnd ==
    \E r \in PendingReads :
        LET read    == selector.reads[r]
            dataUrl == IF read.pc = "reading" THEN read.dataUrl ELSE Null
            newUploadedImages == Append(read.captured, dataUrl)
        IN  /\ selector' = [selector EXCEPT !.uploadedImages = newUploadedImages,
                                            !.reads[r].pc =
                                                IF read.pc = "reading"
                                                THEN "done" ELSE "doneAfterError"]
            /\ prefs' = Append(prefs, NewHandler("handleFileUpload",
                                                 <<<<UploadsKey, newUploadedImages>>>>))
            /\ UNCHANGED <<store, proc, overlay>>

\* uploadedImages.filter((_, i) => i !== index)
WithoutIndex(images, index) ==
    SubSeq(images, 1, index - 1) \o SubSeq(images, index + 1, Len(images))

\* a removal that also takes the removed image out of the stored default
handleRemoveUploadedAndDefault ==
    /\ \E index \in 1..Len(selector.uploadedImages) :
         LET newUploadedImages == WithoutIndex(selector.uploadedImages, index)
             wasSelected == selector.selectedImage = selector.uploadedImages[index]
         IN  /\ StartHandler("handleRemoveUploaded",
                             <<<<UploadsKey, newUploadedImages>>>>
                               \o (IF wasSelected
                                   THEN <<<<"defaultBackgroundImage", Null>>>>
                                   ELSE <<>>))
             /\ selector' = [selector EXCEPT
                               !.uploadedImages = newUploadedImages,
                               !.selectedImage = IF wasSelected THEN Null ELSE @]
    /\ UNCHANGED <<store, proc, overlay>>

\* handleRemoveUploaded(index)
handleRemoveUploaded ==
    /\ \E index \in 1..Len(selector.uploadedImages) :
         LET newUploadedImages == WithoutIndex(selector.uploadedImages, index)
         IN  /\ StartHandler("handleRemoveUploaded",
                             <<<<UploadsKey, newUploadedImages>>>>)
             /\ selector' = [selector EXCEPT
                               !.uploadedImages = newUploadedImages,
                               !.selectedImage =
                                   IF selector.selectedImage = selector.uploadedImages[index]
                                   THEN Null ELSE @]
    /\ UNCHANGED <<store, proc, overlay>>

\* a handler's await Store.load settles; a rejection goes to its catch
PrefsStoreLoaded ==
    /\ \E h \in 1..Len(prefs), ok \in BOOLEAN :
         /\ prefs[h].pc = "load"
         /\ prefs' = [prefs EXCEPT ![h].pc = IF ok THEN "set" ELSE "failed"]
    /\ UNCHANGED <<store, proc, selector, overlay>>

\* a handler's next await store.set(key, value) settles
PrefsStoreSet ==
    /\ \E h \in 1..Len(prefs), ok \in BOOLEAN :
         /\ prefs[h].pc = "set"
         /\ LET key   == Head(prefs[h].writes)[1]
                value == Head(prefs[h].writes)[2]
            IN  IF ok
                THEN /\ store' = [store EXCEPT ![key] = value]
                     /\ prefs' = [prefs EXCEPT
                                    ![h].writes = Tail(@),
                                    ![h].pc = IF Len(prefs[h].writes) = 1
                                              THEN "save" ELSE "set"]
                ELSE /\ store' = store
                     /\ prefs' = [prefs EXCEPT ![h].pc = "failed"]
    /\ UNCHANGED <<proc, selector, overlay>>

\* a handler's await store.save settles, one way or the other
PrefsStoreSaved ==
    /\ \E h \in 1..Len(prefs), ok \in BOOLEAN :
         /\ prefs[h].pc = "save"
         /\ prefs' = [prefs EXCEPT ![h].pc = IF ok THEN "done" ELSE "failed"]
    /\ UNCHANGED <<store, proc, selector, overlay>>

\* the selector after its loadSettings effect has read the store
LoadedSelector(stored) ==
    [selectedImage  |-> IF Truthy(stored["defaultBackgroundImage"])
                        THEN stored["defaultBackgroundImage"] ELSE Null,
     uploadedImages |-> stored[UploadsKey],
     reads          |-> <<>>]

---------------------------------------------------------------------------
(* The quick overlay window.  Its component state changes in the listener
   of overlay-show-capture; React renders and commits the change in a later
   task and runs the effects of that commit in a task after that; timer
   callbacks are tasks of their own and run when they are due or later.
   Time is in milliseconds. *)

fadeDelayMs == 5000
fadeDurationMs == 180

MaxAdvances == 3
MaxCaptures == 2

\* by how much the clock moves between two tasks
TimeSteps == {20, 160, 5000}

CapturePaths == {"/shots/a.png", "/shots/b.png"}

\* what settings.json holds under lastCapturePath when the overlay mounts
SavedPaths == {Null, "/shots/a.png"}

NoTimer == [state |-> "none", due |-> 0, path |-> Null]

\* the component after its first render and the first run of its effects:
\* loadInitialState and listen are awaited, no timer is set for a null path
MountedOverlay ==
    [path        |-> Null,
     createdAt   |-> Null,
     imageLoaded |-> FALSE,
     imageError  |-> FALSE,
     isFadingOut |-> FALSE,
     initial     |-> "loading",    \* loadInitialState
     listening   |-> FALSE,        \* has await listen(...) settled?
     rendered    |-> Null,         \* state.path of the last commit
     imgLoading  |-> FALSE,        \* is the <img> of the commit still loading?
     effectPath  |-> Null,         \* state.path of the last run of the timer effect
     fadeTimer   |-> NoTimer,
     hideTimer   |-> NoTimer,
     since       |-> 0,            \* when the last commit happened
     captures    |-> 0,
     fired       |-> <<>>,         \* the timer callbacks that have run
     advances    |-> 0,
     now         |-> 0]

\* line 71: state.path as the listener sees it; the effect has no
\* dependencies, so this is state.path of the first render
ListenerStatePath == Null

\* loadInitialState settles
OverlayInitialStateLoaded ==
    /\ overlay.initial = "loading"
    /\ \E ok \in BOOLEAN, savedPath \in SavedPaths :
         overlay' = IF ~ok THEN [overlay EXCEPT !.initial = "failed"]
                    ELSE [overlay EXCEPT
                            !.initial = "done",
                            !.path = savedPath,
                            !.createdAt = IF Truthy(savedPath) THEN overlay.now ELSE @]
    /\ UNCHANGED <<store, proc, prefs, selector>>

\* await listen("overlay-show-capture", ...) settles
OverlayListenerReady ==
    /\ ~overlay.listening
    /\ overlay' = [overlay EXCEPT !.listening = TRUE]
    /\ UNCHANGED <<store, proc, prefs, selector>>

\* the listener of overlay-show-capture, called with event.payload.path
OverlayShowCapture(payloadPath) ==
    /\ overlay.listening
    /\ overlay.captures < MaxCaptures
    /\ overlay' = IF payloadPath = ListenerStatePath
                  THEN [overlay EXCEPT !.captures = @ + 1]
                  ELSE [overlay EXCEPT
                          !.captures = @ + 1,
                          !.imageLoaded = FALSE,
                          !.imageError = FALSE,
                          !.path = payloadPath,
                          !.createdAt = overlay.now]
    /\ UNCHANGED <<store, proc, prefs, selector>>

\* React renders and commits a changed state.path; the effects of the
\* commit before have run by then
OverlayCommit ==
    /\ overlay.rendered # overlay.path
    /\ overlay.effectPath = overlay.rendered
    /\ overlay' = [overlay EXCEPT !.rendered = overlay.path,
                                  !.since = overlay.now,
                                  !.imgLoading = Truthy(overlay.path)]
    /\ UNCHANGED <<store, proc, prefs, selector>>

StopTimer(timer) ==
    IF timer.state = "pending" THEN [timer EXCEPT !.state = "cleared"] ELSE timer

\* the effect with dependencies [state.path] after a commit that changed
\* them: the cleanup of its previous run, then its body
OverlayTimerEffect ==
    /\ overlay.effectPath # overlay.rendered
    /\ overlay' =
         IF ~Truthy(overlay.rendered)
         THEN [overlay EXCEPT !.effectPath = overlay.rendered,
                              !.fadeTimer = StopTimer(@),
                              !.hideTimer = StopTimer(@),
                              !.isFadingOut = FALSE]
         ELSE [overlay EXCEPT
                 !.effectPath = overlay.rendered,
                 !.isFadingOut = FALSE,
                 !.fadeTimer = [state |-> "pending",
                                due   |-> overlay.now + fadeDelayMs,
                                path  |-> overlay.rendered],
                 !.hideTimer = [state |-> "pending",
                                due   |-> overlay.now + fadeDelayMs + fadeDurationMs,
                                path  |-> overlay.rendered]]
    /\ UNCHANGED <<store, proc, prefs, selector>>

\* what a timer callback leaves in the log: the path it was set for, the
\* path on display when it ran and since when that path has been on display
Fired(kind, timer) ==
    [kind |-> kind, timerPath |-> timer.path, path |-> overlay.rendered,
     since |-> overlay.since, at |-> overlay.now, fading |-> overlay.isFadingOut]

\* the callback of fadeTimer
FadeTimerFires ==
    /\ overlay.fadeTimer.state = "pending"
    /\ overlay.now >= overlay.fadeTimer.due
    /\ overlay' = [overlay EXCEPT !.fadeTimer.state = "fired",
                                  !.isFadingOut = TRUE,
                                  !.fired = Append(@, Fired("fade", overlay.fadeTimer))]
    /\ UNCHANGED <<store, proc, prefs, selector>>

\* the callback of hideTimer: getCurrentWindow().hide(); a timer set
\* earlier with a shorter delay runs first
HideTimerFires ==
    /\ overlay.hideTimer.state = "pending"
    /\ overlay.now >= overlay.hideTimer.due
    /\ overlay.fadeTimer.state # "pending"
    /\ overlay' = [overlay EXCEPT !.hideTimer.state = "fired",
                                  !.fired = Append(@, Fired("hide", overlay.hideTimer))]
    /\ UNCHANGED <<store, proc, prefs, selector>>

\* onLoad of the <img>
OverlayImageOnLoad ==
    /\ overlay.imgLoading
    /\ overlay' = [overlay EXCEPT !.imgLoading = FALSE, !.imageLoaded = TRUE]
    /\ UNCHANGED <<store, proc, prefs, selector>>

\* onError of the <img>
OverlayImageOnError ==
    /\ overlay.imgLoading
    /\ overlay' = [overlay EXCEPT !.imgLoading = FALSE,
                                  !.imageError = TRUE,
                                  !.imageLoaded = FALSE]
    /\ UNCHANGED <<store, proc, prefs, selector>>

\* time passes between two tasks
Advance ==
    /\ overlay.advances < MaxAdvances
    /\ \E d \in TimeSteps :
         overlay' = [overlay EXCEPT !.now = @ + d, !.advances = @ + 1]
    /\ UNCHANGED <<store, proc, prefs, selector>>

---------------------------------------------------------------------------
(* The system *)

StoreValues ==
    [defaultBackgroundType   |-> StoredTypeValues,
     defaultCustomColor      |-> StoredColorValues,
     defaultBackgroundImage  |-> StoredBgValues,
     forensicMetadataEnabled |-> StoredBoolValues,
     forensicTeam            |-> StoredTeamValues,
     forensicUser            |-> StoredUserValues]

\* the invocations in callers have been called, each with its own arguments,
\* while settings.json holds one of the given values under each key
InitStore(values, uploaded) ==
    {[k \in StoreKeys |-> IF k = UploadsKey THEN uploaded ELSE s[k]] :
        s \in {f \in [AllKeys -> UNION {values[k] : k \in AllKeys}] :
                 \A k \in AllKeys : f[k] \in values[k]}}

InitFrom(callers, values, versions, sizes, timestamps) ==
    /\ store \in InitStore(values, <<>>)
    /\ proc \in {f \in [Invocations ->
                          {IdleProc} \cup {NewProc(v, src, ts) :
                                             v \in versions, src \in sizes,
                                             ts \in timestamps}] :
                    \A i \in Invocations : (f[i] = IdleProc) <=> (i \notin callers)}
    /\ prefs = IdlePrefs
    /\ selector = LoadedSelector(store)
    /\ overlay = MountedOverlay

InitCalling(callers) ==
    InitFrom(callers, StoreValues, Versions, SourceSizes, TimestampOptions)

Init == InitCalling({1})

Step(i) ==
    \/ Invoke(i)
    \/ StoreLoaded(i)
    \/ StoreGot(i)
    \/ ImgOnLoad(i)
    \/ ImgOnError(i)
    \/ BgImageOnLoad(i)
    \/ BgImageOnError(i)
    \/ ToBlobCallback(i)
    \/ ReaderOnError(i)
    \/ ReaderOnLoadEnd(i)

Next == \E i \in Invocations : Step(i)

Spec == Init /\ [][Next]_vars

---------------------------------------------------------------------------
(* The footer's text and pixels: forensic metadata switched on, with team
   and user strings that carry leading, trailing and inner whitespace, and
   callers that pass no timestamp, an empty one, or a real one *)

FooterTeamValues == {Null, "", "security", " sec\t", "a b", "\n"}

FooterUserValues == {Null, "", " ", "bob ", "\tj d"}

FooterTimestampOptions == {Null, "", "2024-01-01T00:00:00Z"}

FooterSourceSizes == {[w |-> 3, h |-> 2]}

FooterStoreValues ==
    [defaultBackgroundType   |-> {"image", "custom"},
     defaultCustomColor      |-> {Null},
     defaultBackgroundImage  |-> {KnownAssetId},
     forensicMetadataEnabled |-> {"true"},
     forensicTeam            |-> FooterTeamValues,
     forensicUser            |-> FooterUserValues]

InitFooter ==
    InitFrom({1}, FooterStoreValues, Versions, FooterSourceSizes,
             FooterTimestampOptions)

SpecFooter == InitFooter /\ [][Next]_vars

---------------------------------------------------------------------------
(* The pipeline next to the preferences window: one invocation, while the
   handlers of the preferences page and of the background selector write
   settings.json *)

PrefsStoreValues ==
    [defaultBackgroundType   |-> {"white"},
     defaultCustomColor      |-> {Null},
     defaultBackgroundImage  |-> {KnownAssetId},
     forensicMetadataEnabled |-> {"false"},
     forensicTeam            |-> {Null},
     forensicUser            |-> {Null}]

InitPrefs ==
    InitFrom({1}, PrefsStoreValues, {"forensic"}, FooterSourceSizes, {Null})

PrefsStep ==
    \/ updateSetting
    \/ handleImageSelect
    \/ handleSolidColorSelect
    \/ handleCustomColorChange
    \/ PrefsStoreLoaded
    \/ PrefsStoreSet
    \/ PrefsStoreSaved

NextPrefs == Next \/ PrefsStep

SpecPrefs == InitPrefs /\ [][NextPrefs]_vars

---------------------------------------------------------------------------
(* Two invocations under way at once, their callbacks interleaved in every
   order the event loop allows *)

TwoStoreValues ==
    [defaultBackgroundType   |-> {"image", "white"},
     defaultCustomColor      |-> {Null},
     defaultBackgroundImage  |-> {KnownAssetId},
     forensicMetadataEnabled |-> {"true"},
     forensicTeam            |-> {Null},
     forensicUser            |-> {Null}]

InitTwo ==
    InitFrom(Invocations, TwoStoreValues, {"forensic"}, SourceSizes, {Null})

SpecTwo == InitTwo /\ [][Next]_vars

---------------------------------------------------------------------------
(* The two versions of the controller side by side: invocation 1 runs the
   version with forensic support, invocation 2 the version without it, on
   the same source and the same settings.json, in which the forensic
   setting is absent or false *)

PairStoreValues ==
    [defaultBackgroundType   |-> {"image", "transparent", "white"},
     defaultCustomColor      |-> {Null},
     defaultBackgroundImage  |-> {KnownAssetId, StaleRef},
     forensicMetadataEnabled |-> {Null, "false"},
     forensicTeam            |-> {Null, "security"},
     forensicUser            |-> {Null}]

InitPair ==
    /\ InitFrom(Invocations, PairStoreValues, Versions, FooterSourceSizes, {Null})
    /\ proc[1].version = "forensic"
    /\ proc[2].version = "plain"

SpecPair == InitPair /\ [][Next]_vars

---------------------------------------------------------------------------
(* The background selector on its own: the user clicks backgrounds, uploads
   and removes images, and the handlers' store calls interleave; no
   screenshot is being finished *)

SelectorStoreValues ==
    [defaultBackgroundType   |-> {"image"},
     defaultCustomColor      |-> {Null},
     defaultBackgroundImage  |-> {KnownAssetId, EarlierUploads[1]},
     forensicMetadataEnabled |-> {Null},
     forensicTeam            |-> {Null},
     forensicUser            |-> {Null}]

InitSelector ==
    /\ store \in InitStore(SelectorStoreValues, EarlierUploads)
    /\ proc = [i \in Invocations |-> IdleProc]
    /\ prefs = IdlePrefs
    /\ selector = LoadedSelector(store)
    /\ overlay = MountedOverlay

SelectorStep ==
    \/ handleImageSelect
    \/ gradientOnClick
    \/ handleSolidColorSelect
    \/ handleCustomColorChange
    \/ handleFileUpload
    \/ UploadReaderOnError
    \/ UploadReaderOnLoadEnd
    \/ handleRemoveUploaded
    \/ PrefsStoreLoaded
    \/ PrefsStoreSet
    \/ PrefsStoreSaved

SpecSelector == InitSelector /\ [][SelectorStep]_vars

---------------------------------------------------------------------------
(* The quick overlay on its own: captures are announced, the image loads,
   time passes and the timers run *)

InitOverlay ==
    /\ store \in InitStore(TwoStoreValues, <<>>)
    /\ store["defaultBackgroundType"] = "white"
    /\ proc = [i \in Invocations |-> IdleProc]
    /\ prefs = IdlePrefs
    /\ selector = LoadedSelector(store)
    /\ overlay = MountedOverlay

OverlayStep ==
    \/ OverlayInitialStateLoaded
    \/ OverlayListenerReady
    \/ \E payloadPath \in CapturePaths : OverlayShowCapture(payloadPath)
    \/ OverlayCommit
    \/ OverlayTimerEffect
    \/ FadeTimerFires
    \/ HideTimerFires
    \/ OverlayImageOnLoad
    \/ OverlayImageOnError
    \/ Advance

SpecOverlay == InitOverlay /\ [][OverlayStep]_vars

---------------------------------------------------------------------------
(* Reading a trace *)

Has(t, event) == \E k \in 1..Len(t) : t[k] = event

Count(t, event) == Cardinality({k \in 1..Len(t) : t[k] = event})

Before(t, a, b) == \E k, l \in 1..Len(t) : k < l /\ t[k] = a /\ t[l] = b

Called == {i \in Invocations : proc[i].pc # "idle"}

---------------------------------------------------------------------------
(* Properties *)

\* C1: in the version with the footer, the stages run in one fixed order:
\* toBlob is only ever called after applyForensicMetadata has returned, which
\* is only ever called after createHighQualityCanvas has returned; the
\* compositor is never called after the footer step; a resolved invocation
\* has gone through each of the three exactly once.
C1_StageOrder ==
    \A i \in Called :
        LET p == proc[i]
            t == p.trace
        IN  p.version = "forensic" =>
              /\ \A k \in 1..Len(t) :
                    t[k] = "toBlob" =>
                       \E c, f \in 1..k :
                           c < f /\ f < k /\ t[c] = "composite" /\ t[f] = "footer"
              /\ ~Before(t, "footer", "composite")
              /\ ~Before(t, "toBlob", "footer")
              /\ ~Before(t, "footerThrew", "toBlob")
              /\ ~Before(t, "compositeThrew", "footer")
              /\ p.promise = "resolved" =>
                    /\ Count(t, "composite") = 1
                    /\ Count(t, "footer") = 1
                    /\ Count(t, "toBlob") = 1

\* a successful run of the forensic version that appended a footer
C1_Witness ==
    \E i \in Called :
        /\ proc[i].version = "forensic"
        /\ proc[i].forensicEnabled
        /\ proc[i].promise = "resolved"
        /\ NeedsBackgroundImage(proc[i].backgroundType)

\* C2: with forensic metadata enabled, the canvas that is encoded is as wide
\* as the composite and exactly 64 pixels higher.
C2_FooterInvariant ==
    \A i \in Called :
        LET p == proc[i]
        IN  (p.version = "forensic" /\ p.forensicEnabled /\ p.output # NoCanvas) =>
              /\ p.output.w = p.canvas.w
              /\ p.output.h = p.canvas.h + 64
              /\ 2 * 12 + 2 * 18 + 4 = p.output.h - p.canvas.h

\* an encode of a footered canvas over a composite of a real screenshot
C2_Witness ==
    \E i \in Called :
        /\ proc[i].forensicEnabled
        /\ proc[i].output # NoCanvas
        /\ proc[i].canvas.w = 1000
        /\ proc[i].output.h = 864

\* the height the footer step adds in this invocation
FooterAdded(p) == IF p.version = "forensic" /\ p.forensicEnabled THEN 64 ELSE 0

\* C3 as stated: for transparent the output has exactly the source's size;
\* for every other type it is the source plus 2 * 100 each way, plus the
\* footer height when forensics is enabled.
C3_AsStated ==
    \A i \in Called :
        LET p == proc[i]
        IN  p.output # NoCanvas =>
              IF p.backgroundType = "transparent"
              THEN p.output.w = p.source.w /\ p.output.h = p.source.h
              ELSE /\ p.output.w = p.source.w + 2 * 100
                   /\ p.output.h = p.source.h + 2 * 100 + FooterAdded(p)

\* C3, amended: the footer height is added for transparent as well: the
\* output is source (transparent) or source + 2 * 100 (every other type) in
\* width, and the same plus the footer height, when forensics is enabled, in
\* height.
C3_PaddingInvariant ==
    \A i \in Called :
        LET p   == proc[i]
            pad == IF p.backgroundType = "transparent" THEN 0 ELSE 100
        IN  p.output # NoCanvas =>
              /\ p.output.w = p.source.w + 2 * pad
              /\ p.output.h = p.source.h + 2 * pad + FooterAdded(p)

\* a transparent screenshot encoded with a footer
C3_Witness ==
    \E i \in Called :
        /\ proc[i].backgroundType = "transparent"
        /\ proc[i].forensicEnabled
        /\ proc[i].output # NoCanvas
        /\ proc[i].output.h = proc[i].source.h + 64

\* C4: whenever the compositor is called for a transparent background, it
\* is called with padding 0 and a shadow whose blur, offsets and opacity are
\* all 0.
C4_TransparentConfig ==
    \A i \in Called :
        LET p == proc[i]
        IN  (p.options # NoOptions /\ p.backgroundType = "transparent") =>
              /\ p.options.backgroundType = "transparent"
              /\ p.options.padding = 0
              /\ p.options.shadow.opacity = 0
              /\ p.options.shadow.blur = 0
              /\ p.options.shadow.offsetX = 0
              /\ p.options.shadow.offsetY = 0

\* the compositor has been called for a transparent background
C4_Witness ==
    \E i \in Called :
        /\ proc[i].options # NoOptions
        /\ proc[i].backgroundType = "transparent"
        /\ proc[i].stored["defaultBackgroundType"] = "transparent"

\* the settings-loading step of the invocation is over
SettingsStepOver(p) == p.pc \notin {"idle", "start", "storeLoad", "get"}

\* C5 as stated: whatever threw in the settings-loading step (Store.load, a
\* store.get, the reference resolution), the source decode is started with
\* nothing rejected before it and with type image, color #667eea, the
\* built-in default background and the footer disabled.
C5_DefaultsAfterSettingsFailure ==
    \A i \in Called :
        LET p == proc[i]
        IN  (p.settingsError # "none" /\ Has(p.trace, "srcStart")) =>
              /\ p.trace[1] = "srcStart"
              /\ p.backgroundType = "image"
              /\ p.customColor = "#667eea"
              /\ p.defaultBgImage = DefaultBackgroundPath
              /\ ~p.forensicEnabled

\* the background reference the settings step read is one the registry no
\* longer resolves, and the type read asks for a background
StaleCase(p) ==
    /\ SettingsStepOver(p)
    /\ p.settingsError = "none"
    /\ NeedsBackgroundImage(p.backgroundType)
    /\ p.stored["defaultBackgroundImage"] = StaleRef

C7_SourceFailureAborts ==
    \A i \in Called :
        LET p == proc[i]
            t == p.trace
        IN  Has(t, "srcError") =>
              /\ p.promise = "rejected"
              /\ p.value = Error(ErrSource)
              /\ p.pc = "done"
              /\ t[Len(t)] = "reject"
              /\ \A e \in {"bgStart", "composite", "footer", "toBlob", "readStart",
                           "resolve"} : ~Has(t, e)
              /\ p.options = NoOptions /\ p.output = NoCanvas /\ p.bgSrc = Null

\* the source image failed to load
C7_Witness ==
    \E i \in Called :
        /\ Has(proc[i].trace, "srcError")
        /\ proc[i].promise = "rejected"

\* C8: once the background has failed to decode the invocation is rejected
\* with the background load failure and over: the compositor, the footer
\* step and the encoder are never called and the promise is never resolved.
C8_BackgroundFailureAborts ==
    \A i \in Called :
        LET p == proc[i]
            t == p.trace
        IN  Has(t, "bgError") =>
              /\ p.promise = "rejected"
              /\ p.value = Error(ErrBackground)
              /\ p.pc = "done"
              /\ \A e \in {"composite", "footer", "toBlob", "readStart", "resolve"} :
                    ~Has(t, e)
              /\ p.options = NoOptions /\ p.canvas = NoCanvas /\ p.output = NoCanvas

\* the background failed to decode
C8_Witness ==
    \E i \in Called :
        /\ Has(proc[i].trace, "bgError")
        /\ proc[i].promise = "rejected"
        /\ proc[i].bgSrc = KnownAssetPath

\* C9 as stated: an invocation none of whose callbacks is outstanding has
\* settled its promise, resolved or rejected, whatever failed.
C9_AlwaysSettled ==
    \A i \in Called :
        proc[i].pc = "done" => proc[i].promise \in {"resolved", "rejected"}

StageStarts == {"srcStart", "bgStart", "composite", "footer", "toBlob", "readStart"}

StageFailures ==
    {"convertFileSrcThrew", "srcError", "bgError", "compositeThrew", "footerThrew",
     "toBlobThrew", "noBlob", "readerError"}

\* C10: within one invocation every stage is started at most once, and no
\* stage is started after a stage has failed.
C10_NoRetries ==
    \A i \in Called :
        LET t == proc[i].trace
        IN  /\ \A e \in StageStarts : Count(t, e) <= 1
            /\ \A k, l \in 1..Len(t) :
                  (k < l /\ t[k] \in StageFailures) => t[l] \notin StageStarts

\* a background decode of a stored asset failed and the invocation is over
C10_Witness ==
    \E i \in Called :
        /\ proc[i].pc = "done"
        /\ Before(proc[i].trace, "bgStart", "bgError")
        /\ proc[i].bgSrc # DefaultBackgroundPath


\* C11: an invocation whose encoder delivered no blob, or whose reader
\* reported an error, is rejected with that failure, and stays rejected when
\* the reader's loadend fires after the error; whatever is resolved is the
\* data URL of the encoded canvas, never the null result of a failed read.
C11_EncodeFailureRejects ==
    \A i \in Called :
        LET p == proc[i]
            t == p.trace
        IN  /\ Has(t, "noBlob") =>
                 (p.promise = "rejected" /\ p.value = Error(ErrBlob))
            /\ Has(t, "readerError") =>
                 (p.promise = "rejected" /\ p.value = Error(ErrRead))
            /\ p.promise = "resolved" =>
                 (p.value # NullResult /\ p.value = DataUrlOf(p.output))

\* the reader reported an error and its loadend has fired as well
C11_Witness ==
    \E i \in Called :
        /\ Before(proc[i].trace, "readerError", "loadEnd")
        /\ Has(proc[i].trace, "resolve")
        /\ proc[i].pc = "done"

\* C12: when appendForensicMetadata throws for want of a context, the
\* invocation is rejected with that error and over; toBlob is never called
\* and no canvas, the bare composite included, is encoded or resolved.
C12_NoContextRejects ==
    \A i \in Called :
        LET p == proc[i]
            t == p.trace
        IN  Has(t, "footerThrew") =>
              /\ p.promise = "rejected"
              /\ p.value = Error(ErrContext)
              /\ p.pc = "done"
              /\ p.output = NoCanvas
              /\ \A e \in {"toBlob", "readStart", "resolve"} : ~Has(t, e)

\* the footer step threw after a composite had been made
C12_Witness ==
    \E i \in Called :
        /\ Has(proc[i].trace, "footerThrew")
        /\ proc[i].canvas # NoCanvas
        /\ proc[i].forensicEnabled

\* C13: with forensic metadata stored as false or not stored, the footer is
\* not enabled, and with the footer not enabled the canvas that is encoded is
\* the very canvas the compositor returned: same object, same size, no footer.
C13_DisabledFooterIsIdentity ==
    \A i \in Called :
        LET p == proc[i]
        IN  p.version = "forensic" =>
              /\ (SettingsStepOver(p)
                   /\ p.stored["forensicMetadataEnabled"] \in {Null, "false"}) =>
                     ~p.forensicEnabled
              /\ (~p.forensicEnabled /\ p.output # NoCanvas) =>
                     /\ p.output = p.canvas
                     /\ p.output.id = p.canvas.id
                     /\ p.output.footer = <<>>
                     /\ p.promise = "resolved" => p.value = DataUrlOf(p.canvas)

\* the forensic setting is absent, all settings were read, and the
\* invocation resolved
C13_Witness ==
    \E i \in Called :
        /\ proc[i].version = "forensic"
        /\ proc[i].settingsError = "none"
        /\ proc[i].stored["forensicMetadataEnabled"] = Null
        /\ proc[i].promise = "resolved"

\* the decode of the source / of the background is under way
SourceInFlight(t) ==
    Has(t, "srcStart") /\ ~Has(t, "srcLoaded") /\ ~Has(t, "srcError")

BackgroundInFlight(t) ==
    Has(t, "bgStart") /\ ~Has(t, "bgLoaded") /\ ~Has(t, "bgError")

\* C20: the background decode is started only after the source has loaded,
\* the compositor is called only after the source has loaded and, for image
\* and gradient, after the background has loaded too, and the two decodes are
\* never under way at the same time.
C20_SequentialDecodes ==
    \A i \in Called :
        LET p == proc[i]
            t == p.trace
        IN  /\ Has(t, "bgStart") => Before(t, "srcLoaded", "bgStart")
            /\ Has(t, "composite") => Before(t, "srcLoaded", "composite")
            /\ (Has(t, "composite") /\ NeedsBackgroundImage(p.backgroundType)) =>
                  Before(t, "bgLoaded", "composite")
            /\ ~(SourceInFlight(t) /\ BackgroundInFlight(t))

\* the background decode is under way, the source having loaded
C20_Witness ==
    \E i \in Called :
        /\ BackgroundInFlight(proc[i].trace)
        /\ Has(proc[i].trace, "srcLoaded")
        /\ proc[i].pc = "bgDecoding"


\* the footer step of this invocation appends a footer
WithFooter(p) == p.version = "forensic" /\ p.forensicEnabled

\* the positions of a string that hold something other than whitespace
InkPositions(s) == {k \in 1..Len(s) : ~IsWhitespace(SubSeq(s, k, k))}

\* what a stored team or user string must read as in the footer: the part
\* from its first to its last non-whitespace character, "unknown" when there
\* is no such character or no stored string at all
ExpectedComponent(stored) ==
    IF stored = Null THEN "unknown"
    ELSE IF InkPositions(stored) = {} THEN "unknown"
    ELSE LET first == CHOOSE k \in InkPositions(stored) :
                          \A l \in InkPositions(stored) : k <= l
             last  == CHOOSE k \in InkPositions(stored) :
                          \A l \in InkPositions(stored) : l <= k
         IN  SubSeq(stored, first, last)

ExpectedLabel(p) ==
    ExpectedComponent(p.stored["forensicTeam"]) \o "/"
        \o ExpectedComponent(p.stored["forensicUser"])

\* C14: whatever team and user strings are stored, the label in the footer is
\* "{team}/{user}", each component being the stored string without its
\* surrounding whitespace, or "unknown" when nothing is left of it or the
\* setting is missing; team "security" with user "" reads "security/unknown"
C14_UserLabel ==
    \A i \in Called :
        LET p == proc[i] IN
        (WithFooter(p) /\ p.output # NoCanvas) =>
            /\ p.output.footer[2] = "User: " \o ExpectedLabel(p)
            /\ (p.stored["forensicTeam"] = "security" /\ p.stored["forensicUser"] = "")
                   => p.output.footer[2] = "User: security/unknown"

\* a team stored with whitespace around it and a user stored with whitespace
\* inside it have reached the footer of an encoded canvas
C14_Witness ==
    \E i \in Called :
        /\ WithFooter(proc[i])
        /\ proc[i].output # NoCanvas
        /\ proc[i].stored["forensicTeam"] = " sec\t"
        /\ proc[i].stored["forensicUser"] = "\tj d"
        /\ proc[i].output.footer[2] = "User: sec/j d"

\* C15: with forensics enabled the footer has two lines; the first is "UTC: "
\* followed by the caller's timestamp exactly as passed (even an empty one),
\* the second is "User: " followed by the team/user label; the clock's time
\* stands in the first line only when the caller passed no timestamp
C15_FooterLines ==
    \A i \in Called :
        LET p == proc[i] IN
        (WithFooter(p) /\ p.output # NoCanvas) =>
            /\ Len(p.output.footer) = 2
            /\ p.timestampUtc # Null => p.output.footer[1] = "UTC: " \o p.timestampUtc
            /\ p.timestampUtc = Null => p.output.footer[1] = "UTC: " \o ClockNow
            /\ p.output.footer[1] = "UTC: " \o ClockNow => p.timestampUtc = Null
            /\ p.output.footer[2] = "User: " \o ExpectedLabel(p)

\* team "security", user "", timestamp 2024-01-01T00:00:00Z: the footer of
\* the resolved result reads as in the end-to-end scenario
C15_Witness ==
    \E i \in Called :
        /\ proc[i].promise = "resolved"
        /\ proc[i].stored["forensicTeam"] = "security"
        /\ proc[i].stored["forensicUser"] = ""
        /\ proc[i].timestampUtc = "2024-01-01T00:00:00Z"
        /\ proc[i].output.footer = <<"UTC: 2024-01-01T00:00:00Z", "User: security/unknown">>

\* the drawing calls of a canvas that are part of the footer
FooterPaint(canvas) ==
    {k \in 1..Len(canvas.paint) :
        canvas.paint[k].kind \in {"fillRect", "stroke", "fillText"}}

\* C16: appendForensicMetadata leaves the composite as it was: the source
\* canvas still is what the compositor returned, every pixel row y < H of the
\* output (H the source's height) holds exactly the source's row y, and the
\* footer's fill, its separator line of one pixel and its two text lines
\* touch rows y >= H only
C16_CompositeUntouched ==
    \A i \in Called :
        LET p == proc[i]
            H == p.canvas.h
        IN  (WithFooter(p) /\ p.output # NoCanvas) =>
                /\ p.canvas = CreateHighQualityCanvas(p.options)
                /\ p.output.id # p.canvas.id
                /\ \A y \in 0..(H - 1) : RowOf(p.output, y) = RowOf(p.canvas, y)
                /\ \A k \in FooterPaint(p.output) :
                       /\ p.output.paint[k].top >= H
                       /\ p.output.paint[k].bottom <= p.output.h
                /\ \A k \in FooterPaint(p.output) :
                       p.output.paint[k].kind = "stroke" =>
                           p.output.paint[k].bottom = p.output.paint[k].top + 1

\* a footer has been drawn under a composite: its band, separator and two
\* text lines are on the output, whose last source row is still a composite row
C16_Witness ==
    \E i \in Called :
        /\ WithFooter(proc[i])
        /\ proc[i].output # NoCanvas
        /\ Cardinality(FooterPaint(proc[i].output)) = 4
        /\ RowOf(proc[i].output, proc[i].canvas.h - 1)
               = <<<<"composite", proc[i].canvas.h - 1>>>>
        /\ RowOf(proc[i].output, proc[i].canvas.h) = <<<<"fillRect", 0>>, <<"stroke", 0>>>>

\* C17: the finishing pipeline only reads the settings store: no step of an
\* invocation, whether it goes on to succeed or to fail, changes the value
\* stored under any key, so the store after an invocation differs from the
\* store before it only by what the preferences handlers wrote meanwhile
C17_PipelineOnlyReads ==
    [][(\E i \in Invocations : Step(i)) =>
           \A k \in AllKeys : store'[k] = store[k]]_vars

\* an invocation has read every setting and has finished, and the store
\* still holds what the invocation read
C17_Witness ==
    \E i \in Called :
        /\ proc[i].pc = "done"
        /\ proc[i].promise \in {"resolved", "rejected"}
        /\ proc[i].settingsError = "none"
        /\ \A k \in AllKeys : proc[i].stored[k] = store[k]

\* the configuration an invocation works with
Config(p) ==
    <<p.backgroundType, p.customColor, p.defaultBgImage,
      p.forensicEnabled, p.forensicTeam, p.forensicUser>>

\* C18: the configuration is read once, before the source decode is started:
\* once the settings-loading step of an invocation is over, no step, and in
\* particular no write of updateSetting, handleImageSelect,
\* handleSolidColorSelect or handleCustomColorChange, changes the background
\* type, colour, background reference or forensic fields of that invocation
C18_ConfigReadOnce ==
    [][\A i \in Invocations :
          /\ SettingsStepOver(proc[i]) => Config(proc[i])' = Config(proc[i])
          /\ Has(proc[i].trace', "srcStart") => SettingsStepOver(proc[i])'
          /\ SettingsStepOver(proc[i]) => proc[i].stored' = proc[i].stored]_vars

\* a handler has changed the stored colour and type after the invocation's
\* settings step, and the invocation has composited with what it had read
C18_Witness ==
    \E i \in Called :
        /\ proc[i].settingsError = "none"
        /\ proc[i].stored["defaultBackgroundType"] = "white"
        /\ store["defaultBackgroundType"] = "custom"
        /\ store["defaultCustomColor"] = "#00ff00"
        /\ proc[i].backgroundType = "white"
        /\ proc[i].customColor = "#667eea"
        /\ Has(proc[i].trace, "composite")
        /\ proc[i].promise = "resolved"

\* what an invocation was given and what has happened to it: its arguments,
\* the await it has reached, the settings it read and the events of its own
\* trace
OwnHistory(p) ==
    <<p.version, p.source, p.timestampUtc, p.pc, p.getIdx, p.stored,
      p.settingsError, p.trace>>

\* C19: two interleaved invocations share no mutable pipeline state: a step
\* of one leaves the configuration, images, canvas and promise of the other
\* as they were; what an invocation has become (settled or not, its value,
\* the canvas it encodes) is determined by its own arguments, settings read
\* and events, whatever the other has done meanwhile; and an invocation is
\* rejected only after a failure of one of its own stages
C19_Isolation ==
    /\ [](\A i, j \in Called :
             OwnHistory(proc[i]) = OwnHistory(proc[j]) => proc[i] = proc[j])
    /\ [](\A i \in Called :
             proc[i].promise = "rejected" =>
                 \/ \E e \in StageFailures : Has(proc[i].trace, e)
                 \/ proc[i].settingsError # "none")
    /\ [][\E i \in Invocations : \A j \in Invocations \ {i} : proc'[j] = proc[j]]_vars

\* invocation 2 has been rejected for its source while invocation 1, called
\* with the same arguments, waits for its background and later resolves
C19_Witness ==
    /\ proc[2].promise = "rejected"
    /\ Has(proc[2].trace, "srcError")
    /\ proc[1].source = proc[2].source
    /\ proc[1].promise = "resolved"
    /\ Has(proc[1].trace, "bgLoaded")
    /\ proc[1].output # NoCanvas

FlatTypes == {"transparent", "white", "black", "gray", "custom"}

\* event b is the one logged right after event a
RightAfter(t, a, b) == \E k \in 1..(Len(t) - 1) : t[k] = a /\ t[k + 1] = b

\* C21: a background decode is started exactly when the source has loaded
\* and the type the invocation works with is image or gradient; for
\* transparent, white, black, gray and custom no background is decoded, the
\* stored reference is never resolved (the default path stays and the
\* resolution cannot fail), and the compositor is called straight from the
\* source-loaded step, with all three background bitmaps null
C21_DecodeOnlyForImageTypes ==
    \A i \in Called :
        LET p == proc[i]
            t == p.trace
        IN  /\ Has(t, "bgStart") <=>
                   (Has(t, "srcLoaded") /\ p.backgroundType \in {"image", "gradient"})
            /\ (SettingsStepOver(p) /\ p.backgroundType \in FlatTypes) =>
                   /\ ~Has(t, "bgStart") /\ ~Has(t, "bgLoaded") /\ ~Has(t, "bgError")
                   /\ p.bgSrc = Null
                   /\ p.defaultBgImage = DefaultBackgroundPath
                   /\ p.settingsError # "resolveBackgroundPath"
                   /\ Has(t, "composite") =>
                          /\ RightAfter(t, "srcLoaded", "composite")
                          /\ p.options.bgImage = Null
                          /\ p.options.gradientImage = Null
                          /\ p.options.selectedImage = Null

\* the custom colour is the stored type while a known asset is the stored
\* reference, and the invocation has composited and resolved
C21_Witness ==
    \E i \in Called :
        /\ proc[i].stored["defaultBackgroundType"] = "custom"
        /\ proc[i].stored["defaultBackgroundImage"] = KnownAssetId
        /\ proc[i].backgroundType = "custom"
        /\ RightAfter(proc[i].trace, "srcLoaded", "composite")
        /\ proc[i].promise = "resolved"

\* C22: every compositor call has exactly one background variant: for
\* gradient the decoded bitmap is gradientImage while bgImage and
\* selectedImage are null; for image it is bgImage, selectedImage is the
\* resolved path and gradientImage is null; for every other type all three
\* are null; the bitmap never has both roles
C22_OneVariant ==
    \A i \in Called :
        LET p == proc[i]
            o == p.options
        IN  Has(p.trace, "composite") =>
                /\ o.backgroundType = p.backgroundType
                /\ ~(o.bgImage # Null /\ o.gradientImage # Null)
                /\ p.backgroundType = "gradient" =>
                       /\ o.gradientImage = p.bgSrc /\ p.bgSrc # Null
                       /\ o.bgImage = Null /\ o.selectedImage = Null
                /\ p.backgroundType = "image" =>
                       /\ o.bgImage = p.bgSrc /\ p.bgSrc # Null
                       /\ o.selectedImage = p.defaultBgImage
                       /\ o.gradientImage = Null
                /\ p.backgroundType \notin {"image", "gradient"} =>
                       o.bgImage = Null /\ o.gradientImage = Null /\ o.selectedImage = Null

\* the compositor has been called for a gradient whose stored reference is
\* a known asset, with the decoded asset as gradientImage
C22_Witness ==
    \E i \in Called :
        /\ Has(proc[i].trace, "composite")
        /\ proc[i].backgroundType = "gradient"
        /\ proc[i].options.gradientImage = KnownAssetPath
        /\ proc[i].options.bgImage = Null

CommonEvents(t) == SelectSeq(t, LAMBDA e : e # "footer")

\* what an invocation has done and ended in: the compositor's arguments,
\* the canvases, the promise and its value
Outcome(p) ==
    <<p.backgroundType, p.customColor, p.defaultBgImage, p.bgSrc,
      p.options, p.canvas, p.output, p.promise, p.value>>

Selections ==
    {h \in 1..Len(prefs) :
        /\ prefs[h].kind \in {"handleImageSelect", "gradientOnClick",
                              "handleSolidColorSelect", "handleCustomColorChange"}
        /\ prefs[h].pc # "returned"}

\* the store.set calls of a handler call that write this key
WritesTo(handler, key) ==
    {k \in 1..Len(handler.all) : handler.all[k][1] = key}

\* C25: once all selecting handlers have completed without a store error,
\* in whatever order their store calls interleaved, the persisted type and
\* the persisted reference are those written by the handler of the most
\* recent selection, as far as that handler writes them; a type of one
\* handler is never left with the reference of another
C25_LastSelectionWins ==
    (Selections # {} /\ \A h \in Selections : prefs[h].pc = "done") =>
        LET last == prefs[CHOOSE h \in Selections : \A g \in Selections : g <= h]
        IN  \A key \in {"defaultBackgroundType", "defaultBackgroundImage"} :
                \A k \in WritesTo(last, key) : store[key] = last.all[k][2]

\* the members of a list of images
ImagesOf(images) == {images[k] : k \in 1..Len(images)}

\* the calls of a handler of this kind
CallsOf(kind) == {h \in 1..Len(prefs) : prefs[h].kind = kind}

\* C27: no upload is lost: when every file read of handleFileUpload has
\* completed, every store write of the uploads has succeeded and nothing
\* was removed, each uploaded image is in the selector's uploadedImages and
\* in the persisted uploadedBackgroundImages, also when a second upload was
\* started before the first read had finished
C27_NoUploadLost ==
    (/\ selector.reads # <<>>
     /\ \A r \in 1..Len(selector.reads) : selector.reads[r].pc = "done"
     /\ \A h \in CallsOf("handleFileUpload") : prefs[h].pc = "done"
     /\ CallsOf("handleRemoveUploaded") = {}) =>
        \A r \in 1..Len(selector.reads) :
            /\ selector.reads[r].dataUrl \in ImagesOf(selector.uploadedImages)
            /\ selector.reads[r].dataUrl \in ImagesOf(store[UploadsKey])

\* C26: handleRemoveUploaded writes the uploadedBackgroundImages key only:
\* the call itself leaves the store alone, takes the image out of the
\* selector's list and clears selectedImage when the removed image was the
\* selected one; no store call of the handler changes defaultBackgroundType,
\* defaultBackgroundImage or any other setting, so the store can go on naming
\* the removed image as the default background
C26_RemoveWritesUploadsOnly ==
    /\ [](\A h \in CallsOf("handleRemoveUploaded") :
             \A k \in 1..Len(prefs[h].all) : prefs[h].all[k][1] = UploadsKey)
    /\ [][/\ \A h \in CallsOf("handleRemoveUploaded") :
               prefs'[h] # prefs[h] => \A key \in AllKeys : store'[key] = store[key]
           /\ (Len(prefs') = Len(prefs) + 1
                  /\ prefs'[Len(prefs')].kind = "handleRemoveUploaded") =>
                 /\ store' = store
                 /\ \E index \in 1..Len(selector.uploadedImages) :
                       /\ selector'.uploadedImages
                             = WithoutIndex(selector.uploadedImages, index)
                       /\ selector.selectedImage = selector.uploadedImages[index]
                             => selector'.selectedImage = Null
                       /\ selector.selectedImage # selector.uploadedImages[index]
                             => selector'.selectedImage = selector.selectedImage]_vars

\* the uploaded image that is the stored default has been removed and the
\* removal has been saved: the selector shows nothing selected, the uploaded
\* list no longer has the image, and the store still names it as the default
C26_Witness ==
    /\ Len(prefs) = 1
    /\ prefs[1].kind = "handleRemoveUploaded"
    /\ prefs[1].pc = "done"
    /\ selector.selectedImage = Null
    /\ store[UploadsKey] = <<>>
    /\ store["defaultBackgroundType"] = "image"
    /\ store["defaultBackgroundImage"] = EarlierUploads[1]

\* C28: an overlay-show-capture event whose path is the path the overlay
\* currently holds is ignored, after whatever events came before: it leaves
\* path, createdAt, imageLoaded and imageError as they were
C28_SamePathIgnored ==
    [][\A payloadPath \in CapturePaths :
          (OverlayShowCapture(payloadPath) /\ payloadPath = overlay.path) =>
              /\ overlay'.path = overlay.path
              /\ overlay'.createdAt = overlay.createdAt
              /\ overlay'.imageLoaded = overlay.imageLoaded
              /\ overlay'.imageError = overlay.imageError]_vars

\* C29: the hide timer hides the window only when the path on display has
\* been the same for the full fade delay plus fade duration, fading out has
\* begun before the hide, a pending timer belongs to the path of the last
\* effect run, and no timer set for a superseded path ever fades or hides
\* the window
C29_AutoHide ==
    /\ \A k \in 1..Len(overlay.fired) :
          LET f == overlay.fired[k]
          IN  /\ f.timerPath = f.path
              /\ f.kind = "hide" =>
                     /\ f.at >= f.since + fadeDelayMs + fadeDurationMs
                     /\ \E j \in 1..(k - 1) :
                            /\ overlay.fired[j].kind = "fade"
                            /\ overlay.fired[j].timerPath = f.timerPath
    /\ overlay.fadeTimer.state = "pending" => overlay.fadeTimer.path = overlay.effectPath
    /\ overlay.hideTimer.state = "pending" => overlay.hideTimer.path = overlay.effectPath
===========================================================================
